---- MODULE Spec2Model ----
(***************************************************************************)
(* Model of the bcl2fastq lane applets                                     *)
(*   src/scgpm_bcl2fastq/src/code.py                    (variant "scgpm")  *)
(*   src/bcl2fastq2_by_lane/src/bcl2fastq2_by_lane.py   (variant "by_lane")*)
(*                                                                         *)
(* Python strings are modelled as sequences of one-character strings, so   *)
(* that split, join, format and upper are computed character by character. *)
(***************************************************************************)
EXTENDS Integers, Sequences, FiniteSets, TLC

VARIABLES
    variant,            \* which of the two scripts is running
    pc,                 \* position in the modelled call
    result,             \* outcome of the modelled call
    lane_index,         \* sample_args['lane_index']
    \* GetUseBasesMaskJob
    barcodes_in,        \* the barcode list as it was passed to GetUseBasesMaskJob.run
    barcodes_list,      \* the same list object, drained by pop()
    default_lengths,    \* the shared default argument index_lengths=[] of _count_index_lengths
    index_lengths_list, \* local index_lengths of run(), parameter of _get_use_bases_mask
    index_lengths,      \* local index_lengths of _get_use_bases_mask (line 416)
    reads,              \* the <Read> elements of RunInfo.xml, in document order
    mask_elements,      \* local dict mask_elements of _get_use_bases_mask
    \* Bcl2fastqJob.create_sample_sheet
    CODES,              \* the lines of the barcodes file
    line_no,            \* number of the line the for loop is at
    SHEET,              \* the text written to the sample sheet so far
    barcode_sample_dict,
    i5,                 \* local i5, kept from one loop iteration to the next
    sample_id,          \* local sample_id, kept from one loop iteration to the next
    \* Bcl2fastqFileUploader.upload_fastq_files
    disk,               \* the files below /home/dnanexus, in os.walk order
    matches,            \* the list returned by _find_fastqs
    fastq_no,           \* number of the match the for loop is at
    flowcell_id,        \* raw_properties['flowcell_id']
    library_name,       \* raw_properties['library_name']
    uploaded,           \* the calls of dxpy.upload_local_file made for fastqs
    \* main, lines 809-813
    run_info_xml,       \* the lines of RunInfo.xml
    sample_args,        \* the entries main adds to sample_args
    \* main
    applet_inputs,      \* the applet inputs that main branches on
    options_dict,       \* option name -> value
    flags_dict,         \* the keys of flags_dict
    use_bases_mask,     \* local use_bases_mask of main
    tools_used_dict,    \* tools_used_dict, its 'commands'
    invocations,        \* the runs of the external tool so far
    output              \* the keys of the dict that main returns

commonVars == <<variant, pc, result, lane_index>>
maskVars == <<barcodes_in, barcodes_list, default_lengths, index_lengths_list,
              index_lengths, reads, mask_elements>>
sheetVars == <<CODES, line_no, SHEET, barcode_sample_dict, i5, sample_id>>
fastqVars == <<disk, matches, fastq_no, flowcell_id, library_name, uploaded>>

metaVars == <<run_info_xml, sample_args>>
mainVars == <<applet_inputs, options_dict, flags_dict, use_bases_mask,
              tools_used_dict, invocations, output>>
restVars == <<metaVars, mainVars>>

vars == <<commonVars, maskVars, sheetVars, fastqVars, restVars>>

Variants == {"scgpm", "by_lane"}

-----------------------------------------------------------------------------
(* Python string and list primitives                                       *)

Digit == <<"0", "1", "2", "3", "4", "5", "6", "7", "8", "9">>

RECURSIVE IntToStr(_)
\* '{}'.format(n) and '%d' % n for a non-negative int
IntToStr(n) ==
    IF n < 10 THEN <<Digit[n + 1]>>
    ELSE IntToStr(n \div 10) \o <<Digit[(n % 10) + 1]>>

RECURSIVE SplitFrom(_, _, _, _)
SplitFrom(s, d, i, cur) ==
    IF i > Len(s) THEN <<cur>>
    ELSE IF s[i] = d THEN <<cur>> \o SplitFrom(s, d, i + 1, <<>>)
    ELSE SplitFrom(s, d, i + 1, Append(cur, s[i]))

\* str.split(d) for a one-character delimiter: empty fields are kept
Split(s, d) == SplitFrom(s, d, 1, <<>>)

RECURSIVE Join(_, _)
\* d.join(parts)
Join(parts, d) ==
    IF parts = <<>> THEN <<>>
    ELSE IF Len(parts) = 1 THEN parts[1]
    ELSE parts[1] \o d \o Join(Tail(parts), d)

\* tuple[k] / list[k] of Python: negative k counts from the end
PyIndexOk(t, k) == k >= -Len(t) /\ k < Len(t)
PyIndex(t, k) == IF k >= 0 THEN t[k + 1] ELSE t[Len(t) + k + 1]

\* Python values that _get_use_bases_mask can find in index_lengths_list
PyInt(n) == [ty |-> "int", val |-> <<n>>]
PyTuple(t) == [ty |-> "tuple", val |-> t]

Range(s) == {s[i] : i \in DOMAIN s}

\* outcome of a call: a returned value, or the exception that ended it
Returned(v) == [kind |-> "return", value |-> v]
Raised(e) == [kind |-> e, value |-> <<>>]
NoResult == [kind |-> "none", value |-> <<>>]

-----------------------------------------------------------------------------
(* GetUseBasesMaskJob                                                      *)

\* t with key k set to v (dict assignment)
DictSet(t, k, v) == [x \in (DOMAIN t) \cup {k} |-> IF x = k THEN v ELSE t[x]]
EmptyDict == [x \in {} |-> <<>>]

\* index_mask with the mutation "empty up to index length 2" in code.py 429
IndexMask_m(v, index_length) ==
    IF v = "scgpm"
    THEN IF index_length > 2 THEN <<"I">> \o IntToStr(index_length) ELSE <<>>
    ELSE <<"I">> \o IntToStr(index_length)

\* index_mask of an indexed read (code.py 429-432, by_lane 409)
IndexMask(v, index_length) ==
    IF v = "scgpm"
    THEN IF index_length > 0 THEN <<"I">> \o IntToStr(index_length) ELSE <<>>
    ELSE <<"I">> \o IntToStr(index_length)

\* lines 434-435 with the mutation "> 0" written as ">= 0"
NMask_m(read_length, index_length) ==
    IF read_length - index_length >= 0
    THEN <<"n">> \o IntToStr(read_length - index_length)
    ELSE <<>>

\* n_mask of an indexed read when read_length >= index_length
NMask(read_length, index_length) ==
    IF read_length - index_length > 0
    THEN <<"n">> \o IntToStr(read_length - index_length)
    ELSE <<>>

\* line 436 with the operands of the subtraction exchanged
IndexTooLong_m(read_length, index_length) == index_length - read_length < 0

\* whether the sys.exit() of line 441 is taken
IndexTooLong(read_length, index_length) == read_length - index_length < 0

RECURSIVE ReadLoop(_, _, _, _, _)
\* the for loop over tree.findall(".//Read"), from element i on
ReadLoop(v, rs, lens, i, elems) ==
    IF i > Len(rs) THEN [err |-> "", elems |-> elems]
    ELSE LET r == rs[i] IN
         IF r.is_indexed = "Y" THEN
            IF lens.ty # "tuple" THEN [err |-> "TypeError", elems |-> elems]
            ELSE IF ~PyIndexOk(lens.val, r.number - 2)
                 THEN [err |-> "IndexError", elems |-> elems]
            ELSE LET index_length == PyIndex(lens.val, r.number - 2) IN
                 IF IndexTooLong(r.read_length, index_length)
                 THEN [err |-> "SystemExit", elems |-> elems]
                 ELSE ReadLoop(v, rs, lens, i + 1,
                               DictSet(elems, r.number,
                                       IndexMask(v, index_length)
                                         \o NMask(r.read_length, index_length)))
         ELSE IF r.is_indexed = "N" THEN
            ReadLoop(v, rs, lens, i + 1,
                     DictSet(elems, r.number, <<"y">> \o IntToStr(r.read_length)))
         ELSE ReadLoop(v, rs, lens, i + 1, elems)

RECURSIVE SortedKeys(_)
\* the keys of a dict in ascending order
SortedKeys(S) ==
    IF S = {} THEN <<>>
    ELSE LET m == CHOOSE x \in S : \A y \in S : x <= y
         IN <<m>> \o SortedKeys(S \ {m})

\* [mask for number, mask in sorted(mask_elements.items())]
SortedMaskElements(elems) ==
    LET ks == SortedKeys(DOMAIN elems) IN [i \in 1..Len(ks) |-> elems[ks[i]]]

\* ','.join(sorted_mask_elements)
UseBasesMask(elems) == Join(SortedMaskElements(elems), <<",">>)

\* the (i7_length, i5_length) appended for one barcode; needs at most 2 elements
BarcodeLengths(barcode) ==
    LET elements == Split(barcode, "-") IN
    <<Len(elements[1]), IF Len(elements) = 2 THEN Len(elements[2]) ELSE 0>>

\* line 412 with the mutation "only an empty collection is inconsistent"
InconsistentIndexLengths_m(lens_list) == Cardinality(Range(lens_list)) = 0

\* len(unique_index_lengths) != 1 (line 412)
InconsistentIndexLengths(lens_list) == Cardinality(Range(lens_list)) # 1

-----------------------------------------------------------------------------
(* Inputs of GetUseBasesMaskJob.run                                        *)

MaxBarcodes == 2
MaxReads == 2

\* barcodes as they are keys of barcode_sample_dict: upper case, '-' separated
Barcodes ==
    { <<"A","C">>, <<"G","T">>, <<"A","C","G">>,
      <<"A","C","-","G","T">>, <<"G","T","-","A","C","G">>,
      <<"A","-","C","-","G">> }

Distinct(s) == \A i, j \in DOMAIN s : i # j => s[i] # s[j]

BarcodeLists ==
    {s \in UNION {[1..n -> Barcodes] : n \in 0..MaxBarcodes} : Distinct(s)}

ReadNumbers == {1, 2, 3, 4}
ReadLengths == {2, 10}
IndexedFlags == {"Y", "N", "y"}

ReadElements ==
    [number : ReadNumbers, read_length : ReadLengths, is_indexed : IndexedFlags]

\* the <Read> elements of a RunInfo.xml: distinct Number attributes, any order
RunInfos ==
    {s \in UNION {[1..n -> ReadElements] : n \in 1..MaxReads} :
        \A i, j \in DOMAIN s : i # j => s[i].number # s[j].number}

Unset == [ty |-> "unset", val |-> <<>>]

\* a local variable that has no binding yet
Unbound == [st |-> "unbound", val |-> <<>>]

\* the state of the parts of the program that a call does not touch
MaskIdle ==
    /\ barcodes_in = <<>>
    /\ barcodes_list = <<>>
    /\ default_lengths = <<>>
    /\ index_lengths_list = <<>>
    /\ index_lengths = Unset
    /\ reads = <<>>
    /\ mask_elements = EmptyDict

SheetIdle ==
    /\ CODES = <<>>
    /\ line_no = 1
    /\ SHEET = <<>>
    /\ barcode_sample_dict = EmptyDict
    /\ i5 = Unbound
    /\ sample_id = Unbound

FastqIdle ==
    /\ disk = <<>>
    /\ matches = <<>>
    /\ fastq_no = 1
    /\ flowcell_id = <<>>
    /\ library_name = <<>>
    /\ uploaded = <<>>

NoSampleArgs ==
    [flowcell_id |-> Unbound, trunc_flowcell_id |-> Unbound, library_name |-> Unbound]

MetaIdle ==
    /\ run_info_xml = <<>>
    /\ sample_args = NoSampleArgs

MainIdle ==
    /\ applet_inputs = <<>>
    /\ options_dict = <<>>
    /\ flags_dict = {}
    /\ use_bases_mask = Unbound
    /\ tools_used_dict = [commands |-> <<>>]
    /\ invocations = <<>>
    /\ output = {}

RestIdle == MetaIdle /\ MainIdle

-----------------------------------------------------------------------------
(* GetUseBasesMaskJob.run, step by step                                    *)

MaskInit ==
    /\ variant \in Variants
    /\ pc = "run"
    /\ barcodes_in \in BarcodeLists
    /\ barcodes_list = barcodes_in
    /\ default_lengths = <<>>
    /\ index_lengths_list = <<>>
    /\ index_lengths = Unset
    /\ reads = <<>>
    /\ mask_elements = EmptyDict
    /\ result = NoResult
    /\ lane_index = 1
    /\ SheetIdle
    /\ FastqIdle
    /\ RestIdle

\* run(): the branch on len(barcodes_list)
GetUseBasesMaskJob_run ==
    /\ pc = "run"
    /\ IF Len(barcodes_list) = 0
       THEN /\ index_lengths_list' = <<PyInt(0), PyInt(0)>>
            /\ pc' = "unique"
       ELSE /\ index_lengths_list' = index_lengths_list
            /\ pc' = "count"
    /\ UNCHANGED <<variant, barcodes_in, barcodes_list, default_lengths,
                   index_lengths, reads, mask_elements, result>>
    /\ UNCHANGED <<lane_index, sheetVars, fastqVars, restVars>>

\* one level of the recursion of _count_index_lengths
count_index_lengths ==
    /\ pc = "count"
    /\ IF barcodes_list = <<>>
       THEN \* pop() raises, the bare except returns the accumulated list
            /\ index_lengths_list' = default_lengths
            /\ pc' = "unique"
            /\ UNCHANGED <<barcodes_list, default_lengths, result>>
       ELSE LET barcode == barcodes_list[Len(barcodes_list)]
                elements == Split(barcode, "-")
            IN  /\ barcodes_list' = SubSeq(barcodes_list, 1, Len(barcodes_list) - 1)
                /\ IF Len(elements) > 2
                   THEN \* logger.error(...) returns None; None.format raises
                        /\ result' = Raised("AttributeError")
                        /\ pc' = "done"
                        /\ UNCHANGED default_lengths
                   ELSE /\ default_lengths' =
                              Append(default_lengths, PyTuple(BarcodeLengths(barcode)))
                        /\ pc' = "count"
                        /\ UNCHANGED result
                /\ UNCHANGED index_lengths_list
    /\ UNCHANGED <<variant, barcodes_in, index_lengths, reads, mask_elements>>
    /\ UNCHANGED <<lane_index, sheetVars, fastqVars, restVars>>

\* _get_use_bases_mask up to line 416: the consistency check
unique_index_lengths ==
    /\ pc = "unique"
    /\ IF InconsistentIndexLengths(index_lengths_list)
       THEN /\ result' = Raised("SystemExit")
            /\ pc' = "done"
            /\ UNCHANGED index_lengths
       ELSE /\ index_lengths' = index_lengths_list[1]
            /\ pc' = "parse"
            /\ UNCHANGED result
    /\ UNCHANGED <<variant, barcodes_in, barcodes_list, default_lengths,
                   index_lengths_list, reads, mask_elements>>
    /\ UNCHANGED <<lane_index, sheetVars, fastqVars, restVars>>

\* _get_use_bases_mask from line 419: parse RunInfo.xml and build the mask
get_use_bases_mask ==
    /\ pc = "parse"
    /\ \E rs \in RunInfos :
          LET out == ReadLoop(variant, rs, index_lengths, 1, EmptyDict) IN
          /\ reads' = rs
          /\ mask_elements' = out.elems
          /\ result' = IF out.err = "" THEN Returned(UseBasesMask(out.elems))
                       ELSE Raised(out.err)
    /\ pc' = "done"
    /\ UNCHANGED <<variant, barcodes_in, barcodes_list, default_lengths,
                   index_lengths_list, index_lengths>>
    /\ UNCHANGED <<lane_index, sheetVars, fastqVars, restVars>>

MaskNext ==
    \/ GetUseBasesMaskJob_run
    \/ count_index_lengths
    \/ unique_index_lengths
    \/ get_use_bases_mask

SpecMask == MaskInit /\ [][MaskNext]_vars

-----------------------------------------------------------------------------
(* Bcl2fastqJob.create_sample_sheet                                        *)

NL == "\n"
TAB == "\t"
Whitespace == {" ", TAB, NL}

RECURSIVE SplitWSFrom(_, _, _)
SplitWSFrom(s, i, cur) ==
    IF i > Len(s) THEN (IF cur = <<>> THEN <<>> ELSE <<cur>>)
    ELSE IF s[i] \in Whitespace
         THEN (IF cur = <<>> THEN <<>> ELSE <<cur>>) \o SplitWSFrom(s, i + 1, <<>>)
    ELSE SplitWSFrom(s, i + 1, Append(cur, s[i]))

\* str.split() without argument: runs of whitespace separate, no empty fields
SplitWS(s) == SplitWSFrom(s, 1, <<>>)

UpperChar(c) ==
    CASE c = "a" -> "A" [] c = "c" -> "C" [] c = "g" -> "G" [] c = "t" -> "T"
      [] OTHER -> c

\* str.upper()
Upper(s) == [i \in DOMAIN s |-> UpperChar(s[i])]

Str(s) == [st |-> "str", val |-> s]
None == [st |-> "None", val |-> <<>>]

\* truth value of a str or None in 'if i5:'
Truthy(x) == x.st = "str" /\ x.val # <<>>

\* the two SHEET.write calls before the loop (lines 308-309)
SheetHeader ==
    <<"[","D","a","t","a","]", NL>>
      \o <<"L","a","n","e",",","S","a","m","p","l","e","_","I","D",",",
           "i","n","d","e","x",",","i","n","d","e","x","2", NL>>

\* '{},{},{},,\n'.format(lane_index, sample_id, i7)
RowWithoutI5(lane, sample, i7) ==
    IntToStr(lane) \o <<",">> \o sample \o <<",">> \o i7 \o <<",", ",", NL>>

\* '{},{},{},{}\n'.format(lane_index, sample_id, i7, i5)
RowWithI5(lane, sample, i7, idx2) ==
    IntToStr(lane) \o <<",">> \o sample \o <<",">> \o i7 \o <<",">> \o idx2 \o <<NL>>

\* the outcome of one iteration of 'for line in CODES' (lines 313-346)
SheetLine(lane, line, dict, cur_i5, cur_sample) ==
    LET elements == SplitWS(line) IN
    IF elements = <<>>
    THEN [err |-> "IndexError", dict |-> dict, i5 |-> cur_i5,
          sample_id |-> cur_sample, row |-> <<>>]
    ELSE
    LET barcode == Upper(elements[1])
        indexes == Split(barcode, "-")
        i7 == indexes[1]
        new_i5 == IF Len(indexes) = 2 THEN Str(indexes[2])
                  ELSE IF Len(indexes) > 2 THEN cur_i5
                  ELSE None
        new_sample == IF Len(elements) = 2 THEN Str(elements[2])
                      ELSE IF Len(elements) = 1 THEN Str(barcode)
                      ELSE cur_sample
        new_dict == IF Len(elements) = 2 THEN DictSet(dict, barcode, Str(elements[2]))
                    ELSE IF Len(elements) = 1 THEN DictSet(dict, barcode, None)
                    ELSE dict
    IN  IF new_i5.st = "unbound" \/ new_sample.st = "unbound"
        THEN [err |-> "UnboundLocalError", dict |-> new_dict, i5 |-> new_i5,
              sample_id |-> new_sample, row |-> <<>>]
        ELSE [err |-> "", dict |-> new_dict, i5 |-> new_i5, sample_id |-> new_sample,
              row |-> IF Truthy(new_i5)
                      THEN RowWithI5(lane, new_sample.val, i7, new_i5.val)
                      ELSE RowWithoutI5(lane, new_sample.val, i7)]

MaxLines == 2
LaneIndexes == {1, 8}

BarcodeTokens ==
    { <<"a","c">>, <<"A","C","-","G","T">>, <<"A","-","C","-","G">> }
SampleTokens == { <<"s","1">>, <<"s","2">> }

\* a line of the barcodes file holding the given tokens
LineOf(tokens) == Join(tokens, <<TAB>>) \o <<NL>>

BarcodeFileLines ==
    {LineOf(<<>>)}
      \cup {LineOf(<<b>>) : b \in BarcodeTokens}
      \cup {LineOf(<<b, t>>) : b \in BarcodeTokens, t \in SampleTokens}
      \cup {LineOf(<<b, <<"s","1">>, <<"x">> >>) : b \in BarcodeTokens}

BarcodeFiles == UNION {[1..n -> BarcodeFileLines] : n \in 0..MaxLines}

SheetInit ==
    /\ variant \in Variants
    /\ pc = "sheet_open"
    /\ result = NoResult
    /\ lane_index \in LaneIndexes
    /\ CODES \in BarcodeFiles
    /\ line_no = 1
    /\ SHEET = <<>>
    /\ barcode_sample_dict = EmptyDict
    /\ i5 = Unbound
    /\ sample_id = Unbound
    /\ MaskIdle
    /\ FastqIdle
    /\ RestIdle

\* lines 302-309: the dict, the file and its two header lines
create_sample_sheet_open ==
    /\ pc = "sheet_open"
    /\ barcode_sample_dict' = EmptyDict
    /\ SHEET' = SheetHeader
    /\ pc' = "sheet_line"
    /\ UNCHANGED <<variant, result, lane_index, CODES, line_no, i5, sample_id>>
    /\ UNCHANGED <<maskVars, fastqVars, restVars>>

\* lines 312-346: one iteration of the loop over the barcodes file
create_sample_sheet_line ==
    /\ pc = "sheet_line"
    /\ line_no <= Len(CODES)
    /\ LET out == SheetLine(lane_index, CODES[line_no], barcode_sample_dict,
                            i5, sample_id)
       IN  /\ barcode_sample_dict' = out.dict
           /\ i5' = out.i5
           /\ sample_id' = out.sample_id
           /\ IF out.err = ""
              THEN /\ SHEET' = SHEET \o out.row
                   /\ line_no' = line_no + 1
                   /\ UNCHANGED <<pc, result>>
              ELSE /\ result' = Raised(out.err)
                   /\ pc' = "done"
                   /\ UNCHANGED <<SHEET, line_no>>
    /\ UNCHANGED <<variant, lane_index, CODES>>
    /\ UNCHANGED <<maskVars, fastqVars, restVars>>

\* lines 347-349: close the sheet and return
create_sample_sheet_return ==
    /\ pc = "sheet_line"
    /\ line_no > Len(CODES)
    /\ result' = Returned(<<>>)
    /\ pc' = "done"
    /\ UNCHANGED <<variant, lane_index, sheetVars>>
    /\ UNCHANGED <<maskVars, fastqVars, restVars>>

SheetNext ==
    \/ create_sample_sheet_open
    \/ create_sample_sheet_line
    \/ create_sample_sheet_return

SpecSheet == SheetInit /\ [][SheetNext]_vars

-----------------------------------------------------------------------------
(* Bcl2fastqFileUploader.upload_fastq_files                                *)

\* s[:n]
Take(s, n) == SubSeq(s, 1, IF Len(s) < n THEN Len(s) ELSE n)

EndsWith(s, suffix) ==
    /\ Len(s) >= Len(suffix)
    /\ SubSeq(s, Len(s) - Len(suffix) + 1, Len(s)) = suffix

FastqSuffix == <<".","f","a","s","t","q",".","g","z">>

\* os.path.join(root, filename)
PathJoin(root, filename) == root \o <<"/">> \o filename

\* os.path.basename(path)
Basename(path) == LET parts == Split(path, "/") IN parts[Len(parts)]

IsDigit(c) == \E d \in DOMAIN Digit : Digit[d] = c

\* int(c) for a one-digit string
DigitValue(c) == (CHOOSE d \in DOMAIN Digit : Digit[d] = c) - 1

\* truncate_flowcell_id with the mutation "the first element is always used"
truncate_flowcell_id_m(fid) ==
    LET elements == Split(fid, "-") IN
    IF Len(elements) = 2 THEN Str(Take(elements[1], 5))
    ELSE IF Len(elements) = 1 THEN Str(Take(elements[1], 5))
    ELSE Unbound

\* truncate_flowcell_id: the 5 character id, unbound for 3 or more elements
truncate_flowcell_id(fid) ==
    LET elements == Split(fid, "-") IN
    IF Len(elements) = 2 THEN Str(Take(elements[2], 5))
    ELSE IF Len(elements) = 1 THEN Str(Take(elements[1], 5))
    ELSE Unbound

\* line 690 with the mutation "up to 7 elements are usual"
UnusualElements_m(n) == n < 5 \/ n > 7

\* len(elements) < 5 or len(elements) > 6
UnusualElements(n) == n < 5 \/ n > 6

\* lines 695-705 with the mutation "the barcode is always elements[0]"
FastqBarcode_m(elements) ==
    IF Len(elements) = 6 THEN Str(elements[1])
    ELSE IF Len(elements) = 5 THEN Str(elements[1])
    ELSE Unbound

\* local barcode after the elif chain of lines 695-705
FastqBarcode(elements) ==
    IF Len(elements) = 6 THEN Str(elements[1] \o <<"-">> \o elements[2])
    ELSE IF Len(elements) = 5 THEN Str(elements[1])
    ELSE Unbound

\* local read after the elif chain of lines 695-705
FastqRead(elements) ==
    IF Len(elements) = 6 THEN Str(elements[5])
    ELSE IF Len(elements) = 5 THEN Str(elements[4])
    ELSE Unbound

\* re.match(r'R(\d)', read) and its group(1)
ReadIndexMatch(read) == Len(read) >= 2 /\ read[1] = "R" /\ IsDigit(read[2])
ReadIndexOf(read) == IF ReadIndexMatch(read) THEN Str(<<read[2]>>) ELSE Unbound

\* lines 715-720 with the mutation "lane and barcode exchanged in the template"
ScgpmName_m(lib, trunc, lane, barcode, read_index) ==
    <<"S","C","G","P","M","_">> \o lib \o <<"_">> \o trunc \o <<"_">> \o barcode
      \o <<"_","L">> \o IntToStr(lane)
      \o <<"_","R">> \o IntToStr(DigitValue(read_index[1])) \o FastqSuffix

\* 'SCGPM_%s_%s_L%d_%s_R%d.fastq.gz' % (..., int(read_index))
ScgpmName(lib, trunc, lane, barcode, read_index) ==
    <<"S","C","G","P","M","_">> \o lib \o <<"_">> \o trunc
      \o <<"_","L">> \o IntToStr(lane) \o <<"_">> \o barcode
      \o <<"_","R">> \o IntToStr(DigitValue(read_index[1])) \o FastqSuffix

NoMetadata(e) == [err |-> e, name |-> <<>>, barcode |-> <<>>, read_index |-> <<>>]

\* _get_scgpm_fastq_name: the returned tuple, or the exception raised
get_scgpm_fastq_name(fastq_path, fid, lib, lane) ==
    LET fastq_filename == Basename(fastq_path)
        elements == Split(fastq_filename, "_")
        barcode == FastqBarcode(elements)
        read == FastqRead(elements)
    IN  IF UnusualElements(Len(elements)) THEN NoMetadata("SystemExit")
        ELSE IF read.st = "unbound" THEN NoMetadata("UnboundLocalError")
        ELSE LET read_index == ReadIndexOf(read.val)
                 trunc_flowcell_id == truncate_flowcell_id(fid)
             IN  IF trunc_flowcell_id.st = "unbound" \/ read_index.st = "unbound"
                      \/ barcode.st = "unbound"
                 THEN NoMetadata("UnboundLocalError")
                 ELSE [err |-> "",
                       name |-> ScgpmName(lib, trunc_flowcell_id.val, lane,
                                          barcode.val, read_index.val),
                       barcode |-> barcode.val,
                       read_index |-> read_index.val]

MaxFiles == 2

HomeDir == <<"/","h","o","m","e","/","d","n","a","n","e","x","u","s">>
\* LOCAL_OUTPUT below the working directory
OutputDir == HomeDir \o <<"/","o","u","t","p","u","t">>
\* a directory that untar_file creates from an input archive
RunDir == HomeDir \o <<"/","r","u","n","_","1">>

BarcodeSegments ==
    { <<>>, << <<"T","C">> >>, << <<"T","C">>, <<"G","A">> >>,
      << <<"T","C">>, <<"G","A">>, <<"A","A">> >> }
ReadSegments == { <<"R","1">>, <<"R","2">>, <<"I","1">> }

\* <barcode segments>_S1_L001_<read>_001.fastq.gz
ToolFileName(bs, rd) ==
    Join(bs \o << <<"S","1">>, <<"L","0","0","1">>, rd,
                  <<"0","0","1">> \o FastqSuffix >>, <<"_">>)

LaneHtml == <<"l","a","n","e",".","h","t","m","l">>

DiskFiles ==
    {[root |-> OutputDir, filename |-> ToolFileName(bs, rd)] :
        bs \in BarcodeSegments, rd \in ReadSegments}
      \cup {[root |-> OutputDir, filename |-> LaneHtml]}
      \cup {[root |-> RunDir,
             filename |-> ToolFileName(<< <<"T","C">> >>, <<"R","1">>)]}

Disks == {s \in UNION {[1..n -> DiskFiles] : n \in 0..MaxFiles} : Distinct(s)}

FlowcellIds ==
    { <<"H","F","N","K","G","B","B","X","X">>,
      <<"0","0","0","0","0","0","0","0","0","-","A","M","G","8","G">>,
      <<"A","-","B","-","C">> }

LibraryNames == { <<"M","y","L","i","b">> }

FastqInit ==
    /\ variant \in Variants
    /\ pc = "find_fastqs"
    /\ result = NoResult
    /\ lane_index \in LaneIndexes
    /\ disk \in Disks
    /\ matches = <<>>
    /\ fastq_no = 1
    /\ flowcell_id \in FlowcellIds
    /\ library_name \in LibraryNames
    /\ uploaded = <<>>
    /\ MaskIdle
    /\ SheetIdle
    /\ RestIdle

RECURSIVE FilterFastqs(_)
\* the paths of the files that fnmatch.filter keeps, in walk order
FilterFastqs(fs) ==
    IF fs = <<>> THEN <<>>
    ELSE (IF EndsWith(fs[1].filename, FastqSuffix)
          THEN <<PathJoin(fs[1].root, fs[1].filename)>> ELSE <<>>)
         \o FilterFastqs(Tail(fs))

\* _find_fastqs: os.walk('/home/dnanexus') in both scripts
find_fastqs ==
    /\ pc = "find_fastqs"
    /\ matches' = FilterFastqs(disk)
    /\ pc' = "upload_fastq"
    /\ UNCHANGED <<variant, result, lane_index, disk, fastq_no, flowcell_id,
                   library_name, uploaded>>
    /\ UNCHANGED <<maskVars, sheetVars, restVars>>

\* lines 540-565: one iteration of the loop over the found fastqs
upload_fastq ==
    /\ pc = "upload_fastq"
    /\ fastq_no <= Len(matches)
    /\ LET fastq == matches[fastq_no]
           fastq_metadata == get_scgpm_fastq_name(fastq, flowcell_id,
                                                  library_name, lane_index)
       IN  IF fastq_metadata.err = ""
           THEN /\ uploaded' = Append(uploaded,
                                      [filename |-> fastq,
                                       name |-> fastq_metadata.name,
                                       barcode |-> fastq_metadata.barcode,
                                       read_index |-> fastq_metadata.read_index])
                /\ fastq_no' = fastq_no + 1
                /\ UNCHANGED <<pc, result>>
           ELSE /\ result' = Raised(fastq_metadata.err)
                /\ pc' = "done"
                /\ UNCHANGED <<uploaded, fastq_no>>
    /\ UNCHANGED <<variant, lane_index, disk, matches, flowcell_id, library_name>>
    /\ UNCHANGED <<maskVars, sheetVars, restVars>>

\* line 566: return fastq_dxlinks
upload_fastq_files_return ==
    /\ pc = "upload_fastq"
    /\ fastq_no > Len(matches)
    /\ result' = Returned(<<>>)
    /\ pc' = "done"
    /\ UNCHANGED <<variant, lane_index, fastqVars>>
    /\ UNCHANGED <<maskVars, sheetVars, restVars>>

FastqNext ==
    \/ find_fastqs
    \/ upload_fastq
    \/ upload_fastq_files_return

SpecFastq == FastqInit /\ [][FastqNext]_vars

-----------------------------------------------------------------------------
(* Fastq metadata: get_flowcell_id, truncate_flowcell_id,                   *)
(* format_library_name as main calls them                                   *)

\* the characters of the class [a-zA-Z0-9]
Alnum ==
    {
  "a", "b", "c", "d", "e", "f", "g", "h", "i", "j", "k", "l", "m",
      "n", "o", "p", "q", "r", "s", "t", "u", "v", "w", "x", "y", "z",
      "A", "B", "C", "D", "E", "F", "G", "H", "I", "J", "K", "L", "M",
      "N", "O", "P", "Q", "R", "S", "T", "U", "V", "W", "X", "Y", "Z",
      "0", "1", "2", "3", "4", "5", "6", "7", "8", "9" }

\* t occurs in s at position i
OccursAt(s, i, t) ==
    /\ i + Len(t) - 1 <= Len(s)
    /\ SubSeq(s, i, i + Len(t) - 1) = t

Occurrences(s, t) == {i \in 1..Len(s) : OccursAt(s, i, t)}

SetMin(S) == CHOOSE x \in S : \A y \in S : x <= y

SetMax(S) == CHOOSE x \in S : \A y \in S : y <= x

FlowcellOpen == <<"<", "F", "l", "o", "w", "c", "e", "l", "l", ">">>

FlowcellClose == <<"<", "/", "F", "l", "o", "w", "c", "e", "l", "l", ">">>

\* re.search(r'<Flowcell>(.+)</Flowcell>', line).group(1), None without a
\* match: the leftmost opening tag, the longest non-empty group without a
\* newline
FlowcellMatch(line) ==
    LET from(p) == p + Len(FlowcellOpen)
        ends(p) == {q \in Occurrences(line, FlowcellClose) :
                       /\ q > from(p)
                       /\ \A k \in from(p)..(q - 1) : line[k] # NL}
        starts == {p \in Occurrences(line, FlowcellOpen) : ends(p) # {}}
    IN  IF starts = {} THEN None
        ELSE LET p == SetMin(starts)
             IN  Str(SubSeq(line, from(p), SetMax(ends(p)) - 1))

RECURSIVE get_flowcell_id(_)
\* get_flowcell_id: the group of the first line that matches; without one
\* the function logs an error and falls off its end, which returns None
get_flowcell_id(xml) ==
    IF xml = <<>> THEN None
    ELSE LET match == FlowcellMatch(xml[1])
         IN  IF match.st = "str" THEN match ELSE get_flowcell_id(Tail(xml))

Rcvd == <<"r", "c", "v", "d">>

\* s.split(t)[0]
BeforeFirst(s, t) ==
    IF Occurrences(s, t) = {} THEN s
    ELSE SubSeq(s, 1, SetMin(Occurrences(s, t)) - 1)

RECURSIVE RStrip(_)
\* s.rstrip()
RStrip(s) ==
    IF s # <<>> /\ s[Len(s)] \in Whitespace
    THEN RStrip(SubSeq(s, 1, Len(s) - 1))
    ELSE s

RECURSIVE SubNonAlnum(_, _)
\* re.sub(r"[^a-zA-Z0-9]+", "-", s), from position i on
SubNonAlnum(s, i) ==
    IF i > Len(s) THEN <<>>
    ELSE IF s[i] \in Alnum THEN <<s[i]>> \o SubNonAlnum(s, i + 1)
    ELSE IF i > 1 /\ s[i - 1] \notin Alnum THEN SubNonAlnum(s, i + 1)
    ELSE <<"-">> \o SubNonAlnum(s, i + 1)

\* format_library_name with the mutation "the name is not stripped"
format_library_name_m(name) == SubNonAlnum(BeforeFirst(name, Rcvd), 1)

\* format_library_name
format_library_name(name) == SubNonAlnum(RStrip(BeforeFirst(name, Rcvd)), 1)

MaxSegments == 3

FlowcellSegments ==
    { <<"H", "F", "N", "K", "G", "B", "B", "X", "X">>,
      <<"0", "0", "0", "0", "0", "0", "0", "0", "0">>,
      <<"A", "M", "G", "8", "G">>,
      <<"A", "B">>,
      <<>> }

\* flowcell ids of 1..MaxSegments segments joined by '-'
RunFlowcellIds ==
    {Join(s, "-") : s \in UNION {[1..n -> FlowcellSegments] : n \in 1..MaxSegments}}

RunLine == <<"<", "R", "u", "n", " ", "I", "d", "=", "\"", "r", "\"", " ", "N", "u", "m", "b", "e", "r", "=", "\"", "1", "\"", ">">> \o <<NL>>

FlowcellLine(fid) ==
    <<" ", " ">> \o FlowcellOpen \o fid \o FlowcellClose \o <<NL>>

\* RunInfo.xml documents without and with a Flowcell element
RunInfoXmls ==
    {<<RunLine>>} \cup {<<RunLine, FlowcellLine(fid)>> : fid \in RunFlowcellIds}

RawLibraryNames ==
    { <<"M", "y", "L", "i", "b", " ", "r", "c", "v", "d", " ", "2", "0", "1", "9", "-", "0", "1", "-", "0", "1">>,
      <<"M", "y", "L", "i", "b">>,
      <<"M", "y", " ", "L", "i", "b", " ", "r", "c", "v", "d">>,
      <<"M", "y", "_", "-", "L", "i", "b", " ", " ", "r", "c", "v", "d", " ", "x">>,
      <<"-", "L", "i", "b", ".">>,
      <<"L", "i", "b", ".", " ", TAB, " ", "r", "c", "v", "d">>,
      <<>>,
      <<"r", "c", "v", "d">>,
      <<"a", " ", "r", "c", "v", "d", " ", "b", " ", "r", "c", "v", "d", " ", "c">>,
      <<"A", "1", " ", "b", "2", NL>>,
      <<"x", "-", "-", "y">>,
      <<" ", "l", "e", "a", "d">> }

MetaInit ==
    /\ variant \in Variants
    /\ pc = "get_flowcell_id"
    /\ result = NoResult
    /\ lane_index = 1
    /\ run_info_xml \in RunInfoXmls
    /\ library_name \in RawLibraryNames
    /\ sample_args = [NoSampleArgs EXCEPT !.library_name = Str(library_name)]
    /\ disk = <<>>
    /\ matches = <<>>
    /\ fastq_no = 1
    /\ flowcell_id = <<>>
    /\ uploaded = <<>>
    /\ MaskIdle
    /\ SheetIdle
    /\ MainIdle

\* main: sample_args['flowcell_id'] = get_flowcell_id('RunInfo.xml')
main_get_flowcell_id ==
    /\ pc = "get_flowcell_id"
    /\ sample_args' =
           [sample_args EXCEPT !.flowcell_id = get_flowcell_id(run_info_xml)]
    /\ pc' = "truncate_flowcell_id"
    /\ UNCHANGED <<variant, result, lane_index, run_info_xml>>
    /\ UNCHANGED <<maskVars, sheetVars, fastqVars, mainVars>>

\* main: sample_args['trunc_flowcell_id'] = truncate_flowcell_id(...);
\* None has no split, and the function returns an unbound local for 3 or
\* more elements
main_truncate_flowcell_id ==
    /\ pc = "truncate_flowcell_id"
    /\ IF sample_args.flowcell_id.st = "None"
       THEN /\ result' = Raised("AttributeError")
            /\ pc' = "done"
            /\ UNCHANGED sample_args
       ELSE LET trunc == truncate_flowcell_id(sample_args.flowcell_id.val)
            IN  IF trunc.st = "unbound"
                THEN /\ result' = Raised("UnboundLocalError")
                     /\ pc' = "done"
                     /\ UNCHANGED sample_args
                ELSE /\ sample_args' =
                            [sample_args EXCEPT !.trunc_flowcell_id = trunc]
                     /\ pc' = "format_library_name"
                     /\ UNCHANGED result
    /\ UNCHANGED <<variant, lane_index, run_info_xml>>
    /\ UNCHANGED <<maskVars, sheetVars, fastqVars, mainVars>>

\* main: sample_args['library_name'] = format_library_name(...)
main_format_library_name ==
    /\ pc = "format_library_name"
    /\ sample_args' =
           [sample_args EXCEPT
               !.library_name = Str(format_library_name(sample_args.library_name.val))]
    /\ pc' = "upload_tools_used"
    /\ UNCHANGED <<variant, result, lane_index, run_info_xml>>
    /\ UNCHANGED <<maskVars, sheetVars, fastqVars, mainVars>>

MetaNext ==
    \/ main_get_flowcell_id
    \/ main_truncate_flowcell_id
    \/ main_format_library_name

SpecMeta == MetaInit /\ [][MetaNext]_vars

-----------------------------------------------------------------------------
(* main: the pipeline from the applet inputs to the returned output        *)

\* a key that a dict does not hold
Missing == [st |-> "missing", val |-> <<>>]

\* an int held as the value of an option
IntValue(n) == [st |-> "int", val |-> <<n>>]

\* the bool True held as the value of an input
PyTrue == [st |-> "True", val |-> <<>>]

\* '{}'.format(value) for a str, an int or True
Format(value) ==
    IF value.st = "int" THEN IntToStr(value.val[1])
    ELSE IF value.st = "True" THEN <<"T", "r", "u", "e">>
    ELSE value.val

\* s.replace('_', '-') with the mutation "the name is kept as it is"
ReplaceUnderscore_m(s) == s

\* s.replace('_', '-')
ReplaceUnderscore(s) == [i \in DOMAIN s |-> IF s[i] = "_" THEN "-" ELSE s[i]]

\* the orders in which a dict may hand out its keys
Orderings(S) ==
    {s \in [1..Cardinality(S) -> S] : \A i, j \in DOMAIN s : i # j => s[i] # s[j]}

RECURSIVE OptionsPart(_, _)
\* the loop over options_dict.items(), in the order the dict iterates
OptionsPart(order, dict) ==
    IF order = <<>> THEN <<>>
    ELSE <<"-", "-">> \o ReplaceUnderscore(order[1]) \o <<" ">>
           \o Format(dict[order[1]]) \o <<" ">> \o OptionsPart(Tail(order), dict)

RECURSIVE FlagsPart(_)
\* the loop over flags_dict.keys()
FlagsPart(order) ==
    IF order = <<>> THEN <<>>
    ELSE <<"-", "-">> \o ReplaceUnderscore(order[1]) \o <<" ">>
           \o FlagsPart(Tail(order))

LOCAL_OUTPUT == <<"o", "u", "t", "p", "u", "t">>

\* '{}-L{}-samplesheet.csv'.format(run_name, lane_index)
SampleSheetName(run_name, lane) ==
    run_name \o <<"-", "L">> \o IntToStr(lane) \o <<"-", "s", "a", "m", "p", "l", "e", "s", "h", "e", "e", "t", ".", "c", "s", "v">>

\* the start of the command: by_lane writes --output-dir and --sample-sheet
\* itself, scgpm has them in options_dict
CommandStart(v, sample_sheet) ==
    <<"b", "c", "l", "2", "f", "a", "s", "t", "q", " ">> \o
    (IF v = "by_lane"
     THEN <<"-", "-", "o", "u", "t", "p", "u", "t", "-", "d", "i", "r", " ">> \o LOCAL_OUTPUT \o <<" ">>
          \o <<"-", "-", "s", "a", "m", "p", "l", "e", "-", "s", "h", "e", "e", "t", " ">> \o sample_sheet \o <<" ">>
     ELSE <<>>)

\* Bcl2fastqJob.run: the command string
Command(v, sample_sheet, option_order, dict, flag_order) ==
    CommandStart(v, sample_sheet) \o OptionsPart(option_order, dict)
        \o FlagsPart(flag_order)

RECURSIVE LStrip(_)
LStrip(s) == IF s # <<>> /\ s[1] \in Whitespace THEN LStrip(Tail(s)) ELSE s

\* s.strip()
Strip(s) == LStrip(RStrip(s))

\* create_subprocess, line 236, with the mutation "the return code is not
\* looked at"
ToolFailed_m(retcode) == FALSE

\* create_subprocess, line 236: if retcode
ToolFailed(retcode) == retcode # 0

\* the message of the Exception of create_subprocess
FailureMessage(cmd, retcode, stdout, stderr) ==
    <<"s", "u", "b", "p", "r", "o", "c", "e", "s", "s", " ", "c", "o", "m", "m", "a", "n", "d", " ", "'">> \o cmd
      \o <<"'", " ", "f", "a", "i", "l", "e", "d", " ", "w", "i", "t", "h", " ", "r", "e", "t", "u", "r", "n", "c", "o", "d", "e", " ", "'">> \o IntToStr(retcode)
      \o <<"'", ".", NL, NL>> \o <<"s", "t", "d", "o", "u", "t", " ", "i", "s", ":", " ", "'">> \o Strip(stdout)
      \o <<"'", ".", NL, NL>> \o <<"s", "t", "d", "e", "r", "r", " ", "i", "s", ":", " ", "'">> \o Strip(stderr)
      \o <<"'", ".">>

RECURSIVE SheetLoop(_, _, _, _, _, _, _)
\* create_sample_sheet: the loop over the lines of the barcodes file
SheetLoop(lane, lines, k, dict, cur_i5, cur_sample, sheet) ==
    IF k > Len(lines) THEN [err |-> "", dict |-> dict, sheet |-> sheet]
    ELSE LET out == SheetLine(lane, lines[k], dict, cur_i5, cur_sample)
         IN  IF out.err # ""
             THEN [err |-> out.err, dict |-> out.dict, sheet |-> sheet]
             ELSE SheetLoop(lane, lines, k + 1, out.dict, out.i5,
                            out.sample_id, sheet \o out.row)

\* create_sample_sheet: the sheet written and the dict returned
create_sample_sheet(lane, lines) ==
    SheetLoop(lane, lines, 1, EmptyDict, Unbound, Unbound, SheetHeader)

RECURSIVE KeysList(_)
\* barcode_sample_dict.keys()
KeysList(S) ==
    IF S = {} THEN <<>>
    ELSE LET k == CHOOSE x \in S : TRUE IN <<k>> \o KeysList(S \ {k})

\* GetUseBasesMaskJob.run for one call: the mask returned or the exception
GetUseBasesMaskJob(v, barcodes, rs) ==
    LET lens_list == IF barcodes = <<>> THEN <<PyInt(0), PyInt(0)>>
                     ELSE [k \in DOMAIN barcodes |->
                              PyTuple(BarcodeLengths(barcodes[k]))]
    IN  IF \E k \in DOMAIN barcodes : Len(Split(barcodes[k], "-")) > 2
        THEN [err |-> "AttributeError", mask |-> <<>>]
        ELSE IF InconsistentIndexLengths(lens_list)
        THEN [err |-> "SystemExit", mask |-> <<>>]
        ELSE LET out == ReadLoop(v, rs, lens_list[1], 1, EmptyDict)
             IN  IF out.err # "" THEN [err |-> out.err, mask |-> <<>>]
                 ELSE [err |-> "", mask |-> UseBasesMask(out.elems)]

RECURSIVE UploadLoop(_, _, _, _, _, _)
\* upload_fastq_files: the loop over the found fastqs
UploadLoop(fs, k, fid, lib, lane, done) ==
    IF k > Len(fs) THEN [err |-> "", uploaded |-> done]
    ELSE LET fastq_metadata == get_scgpm_fastq_name(fs[k], fid, lib, lane)
         IN  IF fastq_metadata.err # ""
             THEN [err |-> fastq_metadata.err, uploaded |-> done]
             ELSE UploadLoop(fs, k + 1, fid, lib, lane,
                             Append(done,
                                    [filename |-> fs[k],
                                     name |-> fastq_metadata.name,
                                     barcode |-> fastq_metadata.barcode,
                                     read_index |-> fastq_metadata.read_index]))

\* '{}/Reports/html/{}/all/all/all'.format(LOCAL_OUTPUT, flowcell_id), below
\* the working directory
LaneHtmlDir(fid) ==
    OutputDir \o <<"/", "R", "e", "p", "o", "r", "t", "s", "/", "h", "t", "m", "l", "/">> \o fid \o <<"/", "a", "l", "l", "/", "a", "l", "l", "/", "a", "l", "l">>

BARCODE_MISMATCHES == <<"b", "a", "r", "c", "o", "d", "e", "_", "m", "i", "s", "m", "a", "t", "c", "h", "e", "s">>
TILES == <<"t", "i", "l", "e", "s">>
USE_BASES_MASK == <<"u", "s", "e", "_", "b", "a", "s", "e", "s", "_", "m", "a", "s", "k">>
OUTPUT_DIR == <<"o", "u", "t", "p", "u", "t", "_", "d", "i", "r">>
SAMPLE_SHEET == <<"s", "a", "m", "p", "l", "e", "_", "s", "h", "e", "e", "t">>
WITH_FAILED_READS == <<"w", "i", "t", "h", "_", "f", "a", "i", "l", "e", "d", "_", "r", "e", "a", "d", "s">>
IGNORE_MISSING_BCLS == <<"i", "g", "n", "o", "r", "e", "_", "m", "i", "s", "s", "i", "n", "g", "_", "b", "c", "l", "s">>

RunName == <<"r", "1">>

\* the applet inputs that the pipeline branches on
AppletInputs ==
    [barcodes_file : BOOLEAN,
     use_bases_mask : {Missing, Str(<<"y", "1", "0", ",", "I", "2">>)},
     barcode_mismatches : {Missing, IntValue(1)},
     tiles : {Missing},
     flags : { {}, {WITH_FAILED_READS, IGNORE_MISSING_BCLS} },
     tags : BOOLEAN]

\* barcodes files: dual index, two different index lengths, an index of 3
\* bases, a barcode of three indexes, no line
MainBarcodeFiles ==
    { <<LineOf(<< <<"A", "C", "-", "G", "T">>, <<"s", "1">> >>)>>,
      <<LineOf(<< <<"a", "c">>, <<"s", "1">> >>), LineOf(<< <<"G", "T", "-", "A", "C", "G">>, <<"s", "2">> >>)>>,
      <<LineOf(<< <<"A", "C", "G">> >>)>>,
      <<LineOf(<< <<"a", "c">> >>), LineOf(<< <<"A", "-", "C", "-", "G">>, <<"s", "2">> >>)>>,
      <<>> }

\* the <Read> elements of RunInfo.xml
MainRunInfos ==
    { << [number |-> 1, read_length |-> 10, is_indexed |-> "N"],
         [number |-> 2, read_length |-> 10, is_indexed |-> "Y"],
         [number |-> 3, read_length |-> 10, is_indexed |-> "Y"] >>,
      << [number |-> 1, read_length |-> 10, is_indexed |-> "N"],
         [number |-> 2, read_length |-> 2, is_indexed |-> "Y"] >> }

MainFlowcellId == <<"H", "F", "N", "K", "G", "B", "B", "X", "X">>

\* RunInfo.xml without a Flowcell element, with a usual one, with one of three
\* segments
MainRunInfoXmls ==
    { <<RunLine>>,
      <<RunLine, FlowcellLine(MainFlowcellId)>>,
      <<RunLine, FlowcellLine(<<"A", "-", "B", "-", "C">>)>> }

\* what the tool leaves on the disk: a fastq and the lane report, a fastq with
\* an unusual name, a fastq without the lane report
MainDisks ==
    { << [root |-> OutputDir, filename |-> ToolFileName(<< <<"T","C">> >>, <<"R","1">>)],
         [root |-> LaneHtmlDir(MainFlowcellId), filename |-> LaneHtml] >>,
      << [root |-> OutputDir,
          filename |-> ToolFileName(<< <<"T","C">>, <<"G","A">>, <<"A","A">> >>,
                                    <<"R","1">>)] >>,
      << [root |-> OutputDir, filename |-> ToolFileName(<< <<"T","C">> >>, <<"R","1">>)] >> }

\* exit code, stdout and stderr of one run of the tool
ToolRuns ==
    { [retcode |-> 0, stdout |-> <<>>, stderr |-> <<"d", "o", "n", "e", NL>>],
      [retcode |-> 1, stdout |-> <<>>, stderr |-> <<"b", "a", "d", " ", "l", "a", "n", "e", NL>>],
      [retcode |-> 1, stdout |-> <<" ", "o", "u", "t", NL>>, stderr |-> <<>>] }

MainInit ==
    /\ variant \in Variants
    /\ pc = "parse_applet_inputs"
    /\ result = NoResult
    /\ lane_index = 1
    /\ applet_inputs \in AppletInputs
    /\ CODES \in MainBarcodeFiles
    /\ reads \in MainRunInfos
    /\ run_info_xml \in MainRunInfoXmls
    /\ library_name = <<"M", "y", "L", "i", "b", " ", "r", "c", "v", "d", " ", "2", "0", "1", "9">>
    /\ sample_args = [NoSampleArgs EXCEPT !.library_name = Str(library_name)]
    /\ options_dict = EmptyDict
    /\ flags_dict = {}
    /\ use_bases_mask = Unbound
    /\ tools_used_dict = [commands |-> <<>>]
    /\ invocations = <<>>
    /\ output = {}
    /\ barcodes_in = <<>>
    /\ barcodes_list = <<>>
    /\ default_lengths = <<>>
    /\ index_lengths_list = <<>>
    /\ index_lengths = Unset
    /\ mask_elements = EmptyDict
    /\ line_no = 1
    /\ SHEET = <<>>
    /\ barcode_sample_dict = EmptyDict
    /\ i5 = Unbound
    /\ sample_id = Unbound
    /\ disk = <<>>
    /\ matches = <<>>
    /\ fastq_no = 1
    /\ flowcell_id = <<>>
    /\ uploaded = <<>>

\* main up to the download of the inputs: parse_applet_inputs returns tags,
\* which by_lane binds only when the input is there, and by_lane downloads
\* applet_args['barcodes_file'] whether or not the key is there
main_parse_applet_inputs ==
    /\ pc = "parse_applet_inputs"
    /\ LET input(n) == IF n = USE_BASES_MASK THEN applet_inputs.use_bases_mask
                       ELSE IF n = TILES THEN applet_inputs.tiles
                       ELSE applet_inputs.barcode_mismatches
           \* options_values: every input of these names, whatever its value
           supplied ==
               [k \in {n \in {BARCODE_MISMATCHES, TILES, USE_BASES_MASK} :
                          input(n) # Missing} |-> input(k)]
           \* options_flags: the inputs of these names whose value is True
           flags == applet_inputs.flags
                      \cup (IF applet_inputs.tiles = PyTrue THEN {TILES} ELSE {})
       IN  IF variant = "by_lane" /\ ~applet_inputs.tags
           THEN /\ result' = Raised("UnboundLocalError")
                /\ pc' = "done"
                /\ UNCHANGED <<options_dict, flags_dict>>
           ELSE IF variant = "by_lane" /\ ~applet_inputs.barcodes_file
           THEN /\ result' = Raised("KeyError")
                /\ pc' = "done"
                /\ options_dict' = supplied
                /\ flags_dict' = flags
           ELSE /\ options_dict' =
                       IF variant = "scgpm"
                       THEN DictSet(supplied, OUTPUT_DIR, Str(LOCAL_OUTPUT))
                       ELSE supplied
                /\ flags_dict' = flags
                /\ pc' = "create_sample_sheet"
                /\ UNCHANGED result
    /\ UNCHANGED <<variant, lane_index, applet_inputs, use_bases_mask,
                   tools_used_dict, invocations, output>>
    /\ UNCHANGED <<maskVars, sheetVars, fastqVars, metaVars>>

\* main: create the sample sheet, put it among the options (scgpm) and store
\* it; scgpm skips this without a barcodes file
main_create_sample_sheet ==
    /\ pc = "create_sample_sheet"
    /\ IF variant = "scgpm" /\ ~applet_inputs.barcodes_file
       THEN /\ pc' = "get_use_bases_mask"
            /\ UNCHANGED <<SHEET, barcode_sample_dict, options_dict, output, result>>
       ELSE LET out == create_sample_sheet(lane_index, CODES)
            IN  /\ SHEET' = out.sheet
                /\ barcode_sample_dict' = out.dict
                /\ IF out.err # ""
                   THEN /\ result' = Raised(out.err)
                        /\ pc' = "done"
                        /\ UNCHANGED <<options_dict, output>>
                   ELSE /\ options_dict' =
                               IF variant = "scgpm"
                               THEN DictSet(options_dict, SAMPLE_SHEET,
                                            Str(SampleSheetName(RunName, lane_index)))
                               ELSE options_dict
                        /\ output' = output \cup {"sample_sheet"}
                        /\ pc' = "get_use_bases_mask"
                        /\ UNCHANGED result
    /\ UNCHANGED <<variant, lane_index, applet_inputs, flags_dict, use_bases_mask,
                   tools_used_dict, invocations>>
    /\ UNCHANGED <<CODES, line_no, i5, sample_id>>
    /\ UNCHANGED <<maskVars, fastqVars, metaVars>>

\* main: derive the mask when the options hold none (scgpm: and there is a
\* barcodes file)
main_get_use_bases_mask ==
    /\ pc = "get_use_bases_mask"
    /\ IF USE_BASES_MASK \notin DOMAIN options_dict
          /\ (variant = "by_lane" \/ applet_inputs.barcodes_file)
       THEN LET out == GetUseBasesMaskJob(variant,
                                          KeysList(DOMAIN barcode_sample_dict),
                                          reads)
            IN  IF out.err # ""
                THEN /\ result' = Raised(out.err)
                     /\ pc' = "done"
                     /\ UNCHANGED <<options_dict, use_bases_mask>>
                ELSE /\ use_bases_mask' = Str(out.mask)
                     /\ options_dict' =
                            DictSet(options_dict, USE_BASES_MASK, Str(out.mask))
                     /\ pc' = "bcl_job_run"
                     /\ UNCHANGED result
       ELSE /\ pc' = "bcl_job_run"
            /\ UNCHANGED <<options_dict, use_bases_mask, result>>
    /\ UNCHANGED <<variant, lane_index, applet_inputs, flags_dict,
                   tools_used_dict, invocations, output>>
    /\ UNCHANGED <<maskVars, sheetVars, fastqVars, metaVars>>

\* main: bcl_job.run builds the command, records it and runs the tool once;
\* create_subprocess raises for an exit code that is not 0. by_lane passes
\* its local use_bases_mask, unbound when the caller supplied the mask.
main_bcl_job_run ==
    /\ pc = "bcl_job_run"
    /\ IF variant = "by_lane" /\ use_bases_mask.st = "unbound"
       THEN /\ result' = Raised("UnboundLocalError")
            /\ pc' = "done"
            /\ UNCHANGED <<tools_used_dict, invocations, disk>>
       ELSE \E option_order \in Orderings(DOMAIN options_dict),
               flag_order \in Orderings(flags_dict),
               run \in ToolRuns :
               LET command == Command(variant, SampleSheetName(RunName, lane_index),
                                      option_order, options_dict, flag_order)
               IN  /\ tools_used_dict' =
                          [commands |-> Append(tools_used_dict.commands, command)]
                   /\ invocations' =
                          Append(invocations,
                                 [cmd |-> command, retcode |-> run.retcode,
                                  stdout |-> run.stdout, stderr |-> run.stderr])
                   /\ IF ToolFailed(run.retcode)
                      THEN /\ result' =
                                  [kind |-> "Exception",
                                   value |-> FailureMessage(command, run.retcode,
                                                            run.stdout, run.stderr)]
                           /\ pc' = "done"
                           /\ UNCHANGED disk
                      ELSE /\ disk' \in MainDisks
                           /\ pc' = "get_flowcell_id"
                           /\ UNCHANGED result
    /\ UNCHANGED <<variant, lane_index, applet_inputs, options_dict, flags_dict,
                   use_bases_mask, output>>
    /\ UNCHANGED <<matches, fastq_no, flowcell_id, library_name, uploaded>>
    /\ UNCHANGED <<maskVars, sheetVars, metaVars>>

\* main: the tools used file is written and stored
main_upload_tools_used ==
    /\ pc = "upload_tools_used"
    /\ output' = output \cup {"tools_used"}
    /\ pc' = "upload_fastq_files"
    /\ UNCHANGED <<variant, lane_index, result, applet_inputs, options_dict,
                   flags_dict, use_bases_mask, tools_used_dict, invocations>>
    /\ UNCHANGED <<maskVars, sheetVars, fastqVars, metaVars>>

\* main: upload_fastq_files names and stores every fastq below /home/dnanexus
main_upload_fastq_files ==
    /\ pc = "upload_fastq_files"
    /\ matches' = FilterFastqs(disk)
    /\ LET out == UploadLoop(matches', 1, sample_args.flowcell_id.val,
                             sample_args.library_name.val, lane_index, <<>>)
       IN  /\ uploaded' = out.uploaded
           /\ IF out.err # ""
              THEN /\ result' = Raised(out.err)
                   /\ pc' = "done"
                   /\ UNCHANGED output
              ELSE /\ output' = output \cup {"fastqs"}
                   /\ pc' = "upload_lane_html"
                   /\ UNCHANGED result
    /\ UNCHANGED <<variant, lane_index, applet_inputs, options_dict, flags_dict,
                   use_bases_mask, tools_used_dict, invocations>>
    /\ UNCHANGED <<disk, fastq_no, flowcell_id, library_name>>
    /\ UNCHANGED <<maskVars, sheetVars, metaVars>>

\* main: upload_lane_html stores the lane report of the flowcell, which
\* dxpy.upload_local_file has to find on the disk
main_upload_lane_html ==
    /\ pc = "upload_lane_html"
    /\ IF \E k \in DOMAIN disk :
             /\ disk[k].root = LaneHtmlDir(sample_args.flowcell_id.val)
             /\ disk[k].filename = LaneHtml
       THEN /\ output' = output \cup {"lane_html"}
            /\ pc' = "return"
            /\ UNCHANGED result
       ELSE /\ result' = Raised("IOError")
            /\ pc' = "done"
            /\ UNCHANGED output
    /\ UNCHANGED <<variant, lane_index, applet_inputs, options_dict, flags_dict,
                   use_bases_mask, tools_used_dict, invocations>>
    /\ UNCHANGED <<maskVars, sheetVars, fastqVars, metaVars>>

\* main: return output
main_return ==
    /\ pc = "return"
    /\ result' = Returned(<<>>)
    /\ pc' = "done"
    /\ UNCHANGED <<variant, lane_index, mainVars>>
    /\ UNCHANGED <<maskVars, sheetVars, fastqVars, metaVars>>

MainNext ==
    \/ main_parse_applet_inputs
    \/ main_create_sample_sheet
    \/ main_get_use_bases_mask
    \/ main_bcl_job_run
    \/ main_get_flowcell_id
    \/ main_truncate_flowcell_id
    \/ main_format_library_name
    \/ main_upload_tools_used
    \/ main_upload_fastq_files
    \/ main_upload_lane_html
    \/ main_return

SpecMain == MainInit /\ [][MainNext]_vars

\* inputs with 'tiles', the name that parse_applet_inputs lists both among
\* the options with a value and among the flags: absent, a str, True
OptionsInputs ==
    [barcodes_file : {TRUE},
     use_bases_mask : {Missing},
     barcode_mismatches : {Missing, IntValue(1)},
     tiles : {Missing, Str(<<"s", "_", "1">>), PyTrue},
     flags : { {}, {WITH_FAILED_READS}, {WITH_FAILED_READS, IGNORE_MISSING_BCLS} },
     tags : {TRUE}]

\* main for a valid barcodes file and run descriptor and every input of
\* OptionsInputs
OptionsInit ==
    /\ variant \in Variants
    /\ pc = "parse_applet_inputs"
    /\ result = NoResult
    /\ lane_index = 1
    /\ applet_inputs \in OptionsInputs
    /\ CODES = <<LineOf(<< <<"A", "C", "-", "G", "T">>, <<"s", "1">> >>)>>
    /\ reads \in MainRunInfos
    /\ run_info_xml = <<RunLine, FlowcellLine(MainFlowcellId)>>
    /\ library_name = <<"M", "y", "L", "i", "b", " ", "r", "c", "v", "d", " ", "2", "0", "1", "9">>
    /\ sample_args = [NoSampleArgs EXCEPT !.library_name = Str(library_name)]
    /\ options_dict = EmptyDict
    /\ flags_dict = {}
    /\ use_bases_mask = Unbound
    /\ tools_used_dict = [commands |-> <<>>]
    /\ invocations = <<>>
    /\ output = {}
    /\ barcodes_in = <<>>
    /\ barcodes_list = <<>>
    /\ default_lengths = <<>>
    /\ index_lengths_list = <<>>
    /\ index_lengths = Unset
    /\ mask_elements = EmptyDict
    /\ line_no = 1
    /\ SHEET = <<>>
    /\ barcode_sample_dict = EmptyDict
    /\ i5 = Unbound
    /\ sample_id = Unbound
    /\ disk = <<>>
    /\ matches = <<>>
    /\ fastq_no = 1
    /\ flowcell_id = <<>>
    /\ uploaded = <<>>

SpecOptions == OptionsInit /\ [][MainNext]_vars

MaxCollected == 2

\* the barcode lists of the calls of one process
CallBarcodeLists ==
    { << <<"A", "C">> >>, << <<"A", "C", "G">> >>, << <<"A", "C", "-", "G", "T">> >>,
      << <<"A", "C">>, <<"G", "T">> >>, <<>> }

\* a process that calls GetUseBasesMaskJob.run several times: the list that
\* is the default of index_lengths is created once, with the def statement
CallsInit ==
    /\ variant \in Variants
    /\ pc = "run"
    /\ barcodes_in \in CallBarcodeLists
    /\ barcodes_list = barcodes_in
    /\ default_lengths = <<>>
    /\ index_lengths_list = <<>>
    /\ index_lengths = Unset
    /\ reads = <<>>
    /\ mask_elements = EmptyDict
    /\ result = NoResult
    /\ lane_index = 1
    /\ SheetIdle
    /\ FastqIdle
    /\ RestIdle

\* the next call of run in the same process, after a call that returned: new
\* arguments and locals, the same default list
GetUseBasesMaskJob_run_again ==
    /\ pc = "done"
    /\ result.kind = "return"
    /\ Len(default_lengths) < MaxCollected
    /\ barcodes_in' \in CallBarcodeLists
    /\ barcodes_list' = barcodes_in'
    /\ index_lengths_list' = <<>>
    /\ index_lengths' = Unset
    /\ reads' = <<>>
    /\ mask_elements' = EmptyDict
    /\ result' = NoResult
    /\ pc' = "run"
    /\ UNCHANGED <<variant, default_lengths>>
    /\ UNCHANGED <<lane_index, sheetVars, fastqVars, restVars>>

CallsNext ==
    \/ MaskNext
    \/ GetUseBasesMaskJob_run_again

SpecCalls == CallsInit /\ [][CallsNext]_vars

-----------------------------------------------------------------------------
(* Properties of mask derivation                                           *)

\* (len(i7), len(i5)) of a barcode with at most one '-', absent i5 counting 0
PairOfBarcode(b) ==
    LET parts == Split(b, "-") IN
    <<Len(parts[1]), IF Len(parts) > 1 THEN Len(parts[2]) ELSE 0>>

WellFormedBarcodes == \A b \in Range(barcodes_in) : Len(Split(b, "-")) <= 2
PairsOfInput == {PairOfBarcode(b) : b \in Range(barcodes_in)}

\* the index length the derivation assigns to read r, when it has one
HasAssigned(r) ==
    index_lengths.ty = "tuple" /\ PyIndexOk(index_lengths.val, r.number - 2)
Assigned(r) == PyIndex(index_lengths.val, r.number - 2)

MaskReturned == pc = "done" /\ result.kind = "return"
TokensOfMask == Split(result.value, ",")

\* C1: a non-empty barcode list whose barcodes all have the same
\* (len(i7), len(i5)) pair gets past the consistency check with exactly that
\* pair as index lengths; a list with two different pairs ends the call with
\* sys.exit() before RunInfo.xml is read, and no mask is produced.
C1_IndexLengthConsistency ==
    (pc \in {"parse", "done"} /\ barcodes_in # <<>> /\ WellFormedBarcodes) =>
        IF Cardinality(PairsOfInput) = 1
        THEN index_lengths = PyTuple(CHOOSE p \in PairsOfInput : TRUE)
        ELSE /\ pc = "done"
             /\ result.kind = "SystemExit"
             /\ index_lengths = Unset
             /\ reads = <<>>
             /\ mask_elements = EmptyDict

C1_Witness ==
    /\ pc = "done"
    /\ Len(barcodes_in) = 2
    /\ WellFormedBarcodes
    /\ Cardinality(PairsOfInput) = 2
    /\ result.kind = "SystemExit"

\* C2: when some indexed read has fewer cycles than the index length the
\* derivation assigns to it, the call returns no mask, whatever the other
\* reads are; it ends with sys.exit() unless another read's lookup of its
\* index length has already raised.
C2_ShortReadAborts ==
    (/\ pc = "done"
     /\ reads # <<>>
     /\ \E i \in DOMAIN reads :
           /\ reads[i].is_indexed = "Y"
           /\ HasAssigned(reads[i])
           /\ reads[i].read_length < Assigned(reads[i]))
    => /\ result.kind # "return"
       /\ result.value = <<>>
       /\ (\A i \in DOMAIN reads :
              reads[i].is_indexed = "Y" => HasAssigned(reads[i]))
          => result.kind = "SystemExit"

C2_Witness ==
    /\ pc = "done"
    /\ Len(reads) = 2
    /\ \E i, j \in DOMAIN reads :
          /\ i < j
          /\ reads[i].is_indexed = "N"
          /\ reads[j].is_indexed = "Y"
          /\ HasAssigned(reads[j])
          /\ reads[j].read_length = 2
          /\ Assigned(reads[j]) = 3
    /\ result.kind = "SystemExit"

\* C3: in a returned mask, a non-indexed read of N cycles has the token yN,
\* and an indexed read of N cycles with assigned index length L, 0 < L <= N,
\* has the token IL when N = L and ILn(N-L) when N > L.
C3_TokenContent ==
    MaskReturned =>
        \A i \in DOMAIN reads :
            LET r == reads[i] IN
            /\ r.is_indexed = "N" =>
                  /\ r.number \in DOMAIN mask_elements
                  /\ mask_elements[r.number] = <<"y">> \o IntToStr(r.read_length)
                  /\ mask_elements[r.number] \in Range(TokensOfMask)
            /\ (r.is_indexed = "Y" /\ Assigned(r) > 0) =>
                  /\ r.number \in DOMAIN mask_elements
                  /\ mask_elements[r.number] \in Range(TokensOfMask)
                  /\ mask_elements[r.number] =
                        IF r.read_length = Assigned(r)
                        THEN <<"I">> \o IntToStr(Assigned(r))
                        ELSE <<"I">> \o IntToStr(Assigned(r)) \o <<"n">>
                                 \o IntToStr(r.read_length - Assigned(r))

C3_Witness ==
    /\ MaskReturned
    /\ \E i, j \in DOMAIN reads :
          /\ reads[i].is_indexed = "Y" /\ reads[i].read_length = 10
          /\ Assigned(reads[i]) = 2
          /\ reads[j].is_indexed = "Y" /\ reads[j].read_length = 2
          /\ Assigned(reads[j]) = 2
    /\ result.value = <<"I","2","n","8",",","I","2">>

NumbersOfReads == {reads[i].number : i \in DOMAIN reads}

\* C4: a returned mask has exactly one token per <Read> element, and the
\* tokens are joined with ',' in ascending order of the reads' numbers.
C4_OneTokenPerRead ==
    MaskReturned =>
        /\ Len(TokensOfMask) = Len(reads)
        /\ DOMAIN mask_elements = NumbersOfReads
        /\ LET ks == SortedKeys(NumbersOfReads) IN
           result.value = Join([k \in 1..Len(ks) |-> mask_elements[ks[k]]], <<",">>)

\* C5: with an empty barcode list the call returns a mask, for every run
\* descriptor, and each indexed read is treated as having index length 0.
C5_EmptyBarcodesMask ==
    (pc = "done" /\ barcodes_in = <<>>) =>
        /\ result.kind = "return"
        /\ \A i \in DOMAIN reads :
              reads[i].is_indexed = "Y" =>
                 /\ reads[i].number \in DOMAIN mask_elements
                 /\ mask_elements[reads[i].number] \in
                       { <<"n">> \o IntToStr(reads[i].read_length),
                         <<"I", "0", "n">> \o IntToStr(reads[i].read_length) }

-----------------------------------------------------------------------------
(* Properties of the sample sheet                                          *)

\* the lines of a text that ends with a newline
LinesOfText(text) ==
    LET parts == Split(text, NL) IN SubSeq(parts, 1, Len(parts) - 1)

\* the rows below the two header lines, each split into its columns
DataRows(text) ==
    LET ls == LinesOfText(text) IN
    [k \in 1..(Len(ls) - 2) |-> Split(ls[k + 2], ",")]

\* the (lane, sample_id, i7, i5) tuple a barcode line stands for: token 1 in
\* upper case split at '-', token 2 as sample id or else the barcode itself
TupleOfLine(lane, line) ==
    LET tokens == SplitWS(line)
        barcode == Upper(tokens[1])
        parts == Split(barcode, "-")
    IN  << IntToStr(lane),
           IF Len(tokens) >= 2 THEN tokens[2] ELSE barcode,
           parts[1],
           IF Len(parts) = 2 THEN parts[2] ELSE <<>> >>

ValidBarcodeLine(line) ==
    /\ SplitWS(line) # <<>>
    /\ Len(Split(SplitWS(line)[1], "-")) <= 2

SheetReturned == pc = "done" /\ result.kind = "return" /\ SHEET # <<>>

\* C6: for a barcodes file of valid lines the sheet is written, and the rows
\* below its two header lines, split at ',', are the (lane, sample_id, i7, i5)
\* tuples of the lines, one per line, in the order of the lines.
C6_SheetRoundTrip ==
    (/\ pc = "done"
     /\ SHEET # <<>>
     /\ \A k \in DOMAIN CODES : ValidBarcodeLine(CODES[k]))
    => /\ result.kind = "return"
       /\ SubSeq(LinesOfText(SHEET), 1, 2) =
             << <<"[","D","a","t","a","]">>,
                <<"L","a","n","e",",","S","a","m","p","l","e","_","I","D",",",
                  "i","n","d","e","x",",","i","n","d","e","x","2">> >>
       /\ DataRows(SHEET) = [k \in DOMAIN CODES |-> TupleOfLine(lane_index, CODES[k])]

\* C7: every data row of the written sheet has exactly 4 comma-separated
\* columns, for dual-index and for single-index barcodes alike.
C7_FourColumns ==
    SheetReturned =>
        \A k \in DOMAIN DataRows(SHEET) : Len(DataRows(SHEET)[k]) = 4

-----------------------------------------------------------------------------
(* Properties of output classification                                     *)

\* the '_'-delimited segments of the base name of a path
SegmentsOf(path) == Split(Basename(path), "_")
UsualSegments(path) == Len(SegmentsOf(path)) \in {5, 6}

\* C8: every stored record belongs to the file of the same position in the
\* list of found files; for a base name of 6 segments its barcode is
\* segment0-segment1 and its read index the digit of segment 4, for 5 segments
\* its barcode is segment 0 and its read index the digit of segment 3.
C8_FilenameParsing ==
    \A k \in DOMAIN uploaded :
        LET rec == uploaded[k]
            segs == SegmentsOf(rec.filename)
        IN  /\ rec.filename = matches[k]
            /\ Len(segs) = 6 =>
                  /\ rec.barcode = segs[1] \o <<"-">> \o segs[2]
                  /\ segs[5][1] = "R"
                  /\ rec.read_index = <<segs[5][2]>>
            /\ Len(segs) = 5 =>
                  /\ rec.barcode = segs[1]
                  /\ segs[4][1] = "R"
                  /\ rec.read_index = <<segs[4][2]>>

C8_Witness ==
    \E k \in DOMAIN uploaded :
        /\ Basename(uploaded[k].filename) =
              <<"T","C","_","G","A","_","S","1","_","L","0","0","1","_","R","2",
                "_","0","0","1",".","f","a","s","t","q",".","g","z">>
        /\ uploaded[k].barcode = <<"T","C","-","G","A">>
        /\ uploaded[k].read_index = <<"2">>

\* C9: the name of every stored record is 'SCGPM_' + library_name + '_' +
\* truncated flowcell id + '_L' + lane_index + '_' + barcode + '_R' +
\* read_index + '.fastq.gz', with the barcode and read index of that record.
C9_StandardizedName ==
    \A k \in DOMAIN uploaded :
        uploaded[k].name =
            <<"S","C","G","P","M","_">> \o library_name \o <<"_">>
              \o truncate_flowcell_id(flowcell_id).val
              \o <<"_","L">> \o IntToStr(lane_index) \o <<"_">>
              \o uploaded[k].barcode \o <<"_","R">> \o uploaded[k].read_index
              \o <<".","f","a","s","t","q",".","g","z">>

C9_Witness ==
    \E k \in DOMAIN uploaded :
        /\ flowcell_id = <<"H","F","N","K","G","B","B","X","X">>
        /\ lane_index = 1
        /\ uploaded[k].name =
              <<"S","C","G","P","M","_","M","y","L","i","b","_","H","F","N","K","G",
                "_","L","1","_","T","C","-","G","A","_","R","2",
                ".","f","a","s","t","q",".","g","z">>

\* C10: a found file whose base name has fewer than 5 or more than 6 segments
\* is never stored and nothing found after it is stored; the loop ends at it
\* with sys.exit() and upload_fastq_files does not return.
C10_UnusualNameAborts ==
    /\ \A k \in DOMAIN uploaded :
          uploaded[k].filename = matches[k] /\ UsualSegments(matches[k])
    /\ \A k \in DOMAIN matches :
          ~UsualSegments(matches[k]) => Len(uploaded) < k
    /\ (pc = "done" /\ \E k \in DOMAIN matches : ~UsualSegments(matches[k])) =>
          /\ result.kind # "return"
          /\ ~UsualSegments(matches[Len(uploaded) + 1]) => result.kind = "SystemExit"

C10_Witness ==
    /\ pc = "done"
    /\ Len(matches) = 2
    /\ Len(SegmentsOf(matches[1])) = 7
    /\ UsualSegments(matches[2])
    /\ ReadIndexMatch(SegmentsOf(matches[2])[Len(SegmentsOf(matches[2])) - 1])
    /\ result.kind = "SystemExit"
    /\ uploaded = <<>>

-----------------------------------------------------------------------------
(* Properties of the fastq metadata                                        *)

\* main has called truncate_flowcell_id with a string
TruncateCalled ==
    /\ pc \in {"format_library_name", "done"}
    /\ sample_args.flowcell_id.st = "str"

FirstFive(s) == [i \in 1..(IF Len(s) < 5 THEN Len(s) ELSE 5) |-> s[i]]

\* C11: a flowcell id of two '-' separated segments is truncated to the first
\* 5 characters of the second segment, an id of one segment to the first 5
\* characters of that segment (HFNKGBBXX gives HFNKG, 000000000-AMG8G gives
\* AMG8G); with any other number of segments the call fails and no truncated
\* id exists.
C11_Truncate ==
    TruncateCalled =>
        LET fid == sample_args.flowcell_id.val
            segs == Split(fid, "-")
            trunc == sample_args.trunc_flowcell_id
        IN  /\ Len(segs) = 2 => trunc = Str(FirstFive(segs[2]))
            /\ Len(segs) = 1 => trunc = Str(FirstFive(segs[1]))
            /\ Len(segs) \notin {1, 2} =>
                   /\ trunc.st = "unbound"
                   /\ pc = "done"
                   /\ result.kind \notin {"none", "return"}
            /\ fid = <<"H", "F", "N", "K", "G", "B", "B", "X", "X">> =>
                   trunc = Str(<<"H", "F", "N", "K", "G">>)
            /\ fid = <<"0", "0", "0", "0", "0", "0", "0", "0", "0", "-", "A", "M", "G", "8", "G">> =>
                   trunc = Str(<<"A", "M", "G", "8", "G">>)

C11_Witness ==
    /\ TruncateCalled
    /\ sample_args.flowcell_id.val = <<"0", "0", "0", "0", "0", "0", "0", "0", "0", "-", "A", "M", "G", "8", "G">>
    /\ sample_args.trunc_flowcell_id = Str(<<"A", "M", "G", "8", "G">>)

\* main has called format_library_name
FormatCalled ==
    /\ pc = "upload_tools_used"
    /\ sample_args.trunc_flowcell_id.st = "str"

\* the part of name before the first 'rcvd', without trailing whitespace
TrimmedPrefix(name) ==
    LET hits == {i \in 1..(Len(name) - 3) :
                    /\ name[i] = "r"
                    /\ name[i + 1] = "c"
                    /\ name[i + 2] = "v"
                    /\ name[i + 3] = "d"}
        n == IF hits = {} THEN Len(name)
             ELSE (CHOOSE i \in hits : \A j \in hits : i <= j) - 1
        ends == {k \in 0..n : k = 0 \/ name[k] \notin {" ", TAB, NL}}
    IN  SubSeq(name, 1, CHOOSE k \in ends : \A j \in ends : j <= k)

\* t with every maximal run of non-alphanumeric characters turned into '-':
\* the characters kept are the alphanumeric ones and the first of each run
Slug(t) ==
    LET kept == {i \in 1..Len(t) :
                    \/ t[i] \in Alnum
                    \/ i = 1
                    \/ t[i - 1] \in Alnum}
        nth(j) == CHOOSE k \in kept : Cardinality({x \in kept : x <= k}) = j
    IN  [j \in 1..Cardinality(kept) |->
            IF t[nth(j)] \in Alnum THEN t[nth(j)] ELSE "-"]

\* C12: the formatted library name is the part of the name before the first
\* 'rcvd', without trailing whitespace and with every maximal run of
\* non-alphanumeric characters replaced by one '-'; it holds only letters,
\* digits and '-', and never two adjacent '-' ('MyLib rcvd 2019-01-01' gives
\* 'MyLib').
C12_FormatLibraryName ==
    FormatCalled =>
        LET formatted == sample_args.library_name.val
        IN  /\ formatted = Slug(TrimmedPrefix(library_name))
            /\ \A i \in DOMAIN formatted : formatted[i] \in Alnum \cup {"-"}
            /\ \A i \in 1..(Len(formatted) - 1) :
                   ~(formatted[i] = "-" /\ formatted[i + 1] = "-")
            /\ library_name = <<"M", "y", "L", "i", "b", " ", "r", "c", "v", "d", " ", "2", "0", "1", "9", "-", "0", "1", "-", "0", "1">> =>
                   formatted = <<"M", "y", "L", "i", "b">>

C12_Witness ==
    /\ FormatCalled
    /\ library_name = <<"M", "y", "_", "-", "L", "i", "b", " ", " ", "r", "c", "v", "d", " ", "x">>
    /\ sample_args.library_name = Str(<<"M", "y", "-", "L", "i", "b">>)

\* C18: get_flowcell_id never hands an absent value to its caller.
C18_FlowcellIdNeverNone ==
    (run_info_xml # <<>> /\ pc # "get_flowcell_id") =>
        sample_args.flowcell_id.st # "None"

-----------------------------------------------------------------------------
(* Properties of barcode lines                                             *)

\* the lines of the barcodes file whose rows are in the sheet
WrittenLines ==
    IF pc \in {"sheet_line", "done"} /\ SHEET # <<>>
    THEN 1..(line_no - 1) ELSE {}

\* token 1 of a barcode line, in upper case
BarcodeOfLine(line) == Upper(SplitWS(line)[1])

\* C16: a barcode line whose barcode holds more than one '-' stops the
\* construction of the sheet; no row is written for it.
C16_ManySeparatorsFail ==
    \A k \in WrittenLines :
        SplitWS(CODES[k]) # <<>> => Len(Split(BarcodeOfLine(CODES[k]), "-")) <= 2

\* the sample id the barcode-to-sample mapping holds for a barcode line
MappedSample(line) ==
    IF Len(SplitWS(line)) >= 2 THEN Str(SplitWS(line)[2]) ELSE None

\* C17: for every barcode line with a token, the row's Sample_ID is token 2
\* when there is one and the barcode otherwise, and the mapping holds the
\* barcode with token 2 or None; the keys of the mapping are the barcodes
\* written to the sheet.
C17_SampleOfLine ==
    /\ \A k \in WrittenLines :
           /\ DataRows(SHEET)[k][2] = TupleOfLine(lane_index, CODES[k])[2]
           /\ BarcodeOfLine(CODES[k]) \in DOMAIN barcode_sample_dict
           /\ (\A j \in WrittenLines :
                  BarcodeOfLine(CODES[j]) = BarcodeOfLine(CODES[k]) => j <= k)
              => barcode_sample_dict[BarcodeOfLine(CODES[k])] = MappedSample(CODES[k])
    /\ WrittenLines # {} =>
           DOMAIN barcode_sample_dict = {BarcodeOfLine(CODES[k]) : k \in WrittenLines}

-----------------------------------------------------------------------------
(* Properties of the assignment of index lengths to reads                  *)

\* the positions in reads of the indexed reads
IndexedReads == {i \in DOMAIN reads : reads[i].is_indexed = "Y"}

\* the rank of read i among the indexed reads, by ascending number
IndexedRank(i) ==
    Cardinality({j \in IndexedReads : reads[j].number <= reads[i].number})

\* the tokens of an indexed read of N cycles with index length L <= N
IndexedTokens(L, N) ==
    IF L = 0 THEN { <<"n">> \o IntToStr(N), <<"I", "0", "n">> \o IntToStr(N) }
    ELSE IF L = N THEN { <<"I">> \o IntToStr(L) }
    ELSE { <<"I">> \o IntToStr(L) \o <<"n">> \o IntToStr(N - L) }

\* C19: the indexed read with the smallest number gets the i7 length and the
\* one with the next smallest number the i5 length, whatever the numbers of
\* the reads are.
C19_PositionalAssignment ==
    (/\ pc = "done"
     /\ reads # <<>>
     /\ index_lengths.ty = "tuple"
     /\ Cardinality(IndexedReads) <= 2
     /\ \A i \in IndexedReads :
           index_lengths.val[IndexedRank(i)] <= reads[i].read_length)
    => /\ result.kind = "return"
       /\ \A i \in IndexedReads :
             /\ reads[i].number \in DOMAIN mask_elements
             /\ mask_elements[reads[i].number] \in
                   IndexedTokens(index_lengths.val[IndexedRank(i)],
                                 reads[i].read_length)

\* C20: a mask is returned only when the indexed reads and the index lengths
\* correspond one to one: at most two indexed reads, and an indexed read for
\* every index length that is not 0.
C20_OneToOne ==
    (/\ MaskReturned
     /\ index_lengths.ty = "tuple"
     /\ \A i \in DOMAIN reads : reads[i].is_indexed \in {"Y", "N"})
    =>  /\ Cardinality(IndexedReads) <= 2
        /\ Cardinality({j \in 1..2 : index_lengths.val[j] > 0})
              <= Cardinality(IndexedReads)

-----------------------------------------------------------------------------
(* Properties of the pipeline                                              *)

\* t is a part of s
Contains(s, t) ==
    \E i \in 1..(Len(s) + 1) :
        /\ i + Len(t) - 1 <= Len(s)
        /\ \A j \in 1..Len(t) : s[i + j - 1] = t[j]

\* s without the whitespace at its two ends
Trimmed(s) ==
    LET inner == {i \in DOMAIN s : s[i] \notin {" ", TAB, NL}}
    IN  IF inner = {} THEN <<>>
        ELSE SubSeq(s, CHOOSE i \in inner : \A j \in inner : i <= j,
                       CHOOSE i \in inner : \A j \in inner : j <= i)

\* a stage that follows the run of the tool has acted
LaterStageRan ==
    \/ output \cap {"tools_used", "fastqs", "lane_html"} # {}
    \/ sample_args.flowcell_id.st # "unbound"
    \/ matches # <<>>
    \/ uploaded # <<>>

\* C13: the tool is run at most once; a run that ends with an exit code other
\* than 0 ends the pipeline with a failure that holds the command line and
\* the captured stdout and stderr (without the whitespace at their ends), and
\* no later stage acts; later stages act only after a run with exit code 0.
C13_ToolOnceAndFatal ==
    /\ Len(invocations) <= 1
    /\ Len(tools_used_dict.commands) = Len(invocations)
    /\ \A k \in DOMAIN invocations :
          invocations[k].retcode # 0 =>
              /\ pc = "done"
              /\ result.kind \notin {"none", "return"}
              /\ Contains(result.value, invocations[k].cmd)
              /\ Contains(result.value, Trimmed(invocations[k].stdout))
              /\ Contains(result.value, Trimmed(invocations[k].stderr))
              /\ ~LaterStageRan
    /\ LaterStageRan =>
          /\ Len(invocations) = 1
          /\ invocations[1].retcode = 0

C13_Witness ==
    /\ Len(invocations) = 1
    /\ invocations[1].retcode = 1
    /\ invocations[1].stdout = <<" ", "o", "u", "t", NL>>
    /\ pc = "done"
    /\ result.kind = "Exception"
    /\ Contains(result.value, <<"s", "t", "d", "o", "u", "t", " ", "i", "s", ":", " ", "'", "o", "u", "t", "'">>)

\* the barcodes of the lines of the barcodes file
BarcodesOfFile ==
    {BarcodeOfLine(CODES[k]) : k \in {j \in DOMAIN CODES : SplitWS(CODES[j]) # <<>>}}

TwoIndexBarcodes == {b \in BarcodesOfFile : Len(Split(b, "-")) <= 2}

\* the barcodes file or the run descriptor holds a configuration error
ConfigurationError ==
    \/ /\ applet_inputs.barcodes_file
       /\ \/ BarcodesOfFile # TwoIndexBarcodes
          \/ Cardinality({PairOfBarcode(b) : b \in TwoIndexBarcodes}) > 1
          \/ \E b \in TwoIndexBarcodes, i \in IndexedReads :
                /\ IndexedRank(i) <= 2
                /\ PairOfBarcode(b)[IndexedRank(i)] > reads[i].read_length
    \/ \A k \in DOMAIN run_info_xml : ~Contains(run_info_xml[k], FlowcellOpen)

\* C14: with a configuration error in the inputs (two index lengths, an
\* index longer than its read, a barcode of more than two indexes, no
\* flowcell id) the tool is never run, in both scripts, with or without a
\* mask from the caller.
C14_NoToolOnConfigurationError ==
    ConfigurationError => invocations = <<>>

\* the tokens of a command, each of them ended by a blank
CommandTokens(cmd) ==
    LET blanks == {i \in DOMAIN cmd : cmd[i] = " "}
        nth(j) == CHOOSE b \in blanks : Cardinality({x \in blanks : x <= b}) = j
        start(j) == IF j = 1 THEN 1 ELSE nth(j - 1) + 1
    IN  [j \in 1..Cardinality(blanks) |-> SubSeq(cmd, start(j), nth(j) - 1)]

\* a name with '-' for every '_'
Hyphenated(name) ==
    [i \in 1..Len(name) |-> IF name[i] = "_" THEN "-" ELSE name[i]]

\* C15: the command is 'bcl2fastq', then a '--<option> <value>' pair for
\* every entry of the options, then a bare '--<flag>' for every flag, with
\* '-' for every '_' of a name and the values as they are; what by_lane puts
\* before the pairs of the options is its fixed --output-dir and
\* --sample-sheet.
C15_CommandLine ==
    \A k \in DOMAIN invocations :
        LET t == CommandTokens(invocations[k].cmd)
            fixed == IF variant = "by_lane" THEN 2 ELSE 0
            n == Cardinality(DOMAIN options_dict)
            m == Cardinality(flags_dict)
            pairs == (fixed + 1)..(fixed + n)
            bare == (2 + 2 * (fixed + n))..(1 + 2 * (fixed + n) + m)
        IN  /\ Len(t) = 1 + 2 * (fixed + n) + m
            /\ t[1] = <<"b", "c", "l", "2", "f", "a", "s", "t", "q">>
            /\ invocations[k].cmd[Len(invocations[k].cmd)] = " "
            /\ variant = "by_lane" =>
                  SubSeq(t, 2, 5) =
                      << <<"-", "-", "o", "u", "t", "p", "u", "t", "-", "d", "i", "r">>, LOCAL_OUTPUT,
                         <<"-", "-", "s", "a", "m", "p", "l", "e", "-", "s", "h", "e", "e", "t">>,
                         SampleSheetName(RunName, lane_index) >>
            /\ \A o \in DOMAIN options_dict :
                  Cardinality({j \in pairs :
                                  /\ t[2 * j] = <<"-", "-">> \o Hyphenated(o)
                                  /\ t[2 * j + 1] = Format(options_dict[o])}) = 1
            /\ \A f \in flags_dict :
                  Cardinality({p \in bare : t[p] = <<"-", "-">> \o Hyphenated(f)}) = 1
            /\ \A p \in {2 * j : j \in 1..(fixed + n)} \cup bare :
                  ~Contains(t[p], <<"_">>)

C15_Witness ==
    /\ variant = "scgpm"
    /\ Len(invocations) = 1
    /\ invocations[1].cmd =
           <<"b", "c", "l", "2", "f", "a", "s", "t", "q", " ", "-", "-", "u", "s", "e", "-", "b", "a", "s", "e", "s", "-", "m", "a", "s", "k", " ", "y", "1", "0", ",", "I", "2", " ">> \o
           <<"-", "-", "o", "u", "t", "p", "u", "t", "-", "d", "i", "r", " ", "o", "u", "t", "p", "u", "t", " ">> \o
           <<"-", "-", "s", "a", "m", "p", "l", "e", "-", "s", "h", "e", "e", "t", " ", "r", "1", "-", "L", "1", "-", "s", "a", "m", "p", "l", "e", "s", "h", "e", "e", "t", ".", "c", "s", "v", " ">> \o
           <<"-", "-", "b", "a", "r", "c", "o", "d", "e", "-", "m", "i", "s", "m", "a", "t", "c", "h", "e", "s", " ", "1", " ">> \o
           <<"-", "-", "w", "i", "t", "h", "-", "f", "a", "i", "l", "e", "d", "-", "r", "e", "a", "d", "s", " ">> \o
           <<"-", "-", "i", "g", "n", "o", "r", "e", "-", "m", "i", "s", "s", "i", "n", "g", "-", "b", "c", "l", "s", " ">>

-----------------------------------------------------------------------------
(* Properties of the components of a mask                                  *)

\* the indexed reads whose looked up index length is 0
ZeroIndexReads ==
    {i \in IndexedReads : HasAssigned(reads[i]) /\ Assigned(reads[i]) = 0}

\* C21: an indexed read with index length 0 has no index component: no token
\* of a returned mask holds 'I0', in either script, and the token of such a
\* read of N > 0 cycles is n<N>.
C21_NoZeroIndexComponent ==
    MaskReturned =>
        /\ \A k \in DOMAIN TokensOfMask : ~Contains(TokensOfMask[k], <<"I", "0">>)
        /\ \A i \in ZeroIndexReads :
              reads[i].read_length > 0 =>
                  mask_elements[reads[i].number] =
                      <<"n">> \o IntToStr(reads[i].read_length)

\* the characters before position p of token t are I and a number
AfterIndexComponent(t, p) ==
    /\ p > 2
    /\ t[1] = "I"
    /\ \A j \in 2..(p - 1) : IsDigit(t[j])

\* the positions of the discard components of token t
DiscardPositions(t) == {p \in DOMAIN t : t[p] = "n"}

\* the statement "a discard component n<M> always follows an index component
\* I<N> inside its token"
C22_DiscardNeverAlone ==
    MaskReturned =>
        \A k \in DOMAIN TokensOfMask :
            \A p \in DiscardPositions(TokensOfMask[k]) :
                AfterIndexComponent(TokensOfMask[k], p)

\* C22: in a returned mask a discard component n<M> follows an index
\* component I<N> inside its token, except in the scgpm script for an indexed
\* read with index length 0, whose token is n<M> alone.
C22_DiscardAfterIndexOrZero ==
    MaskReturned =>
        \A k \in DOMAIN TokensOfMask :
            \A p \in DiscardPositions(TokensOfMask[k]) :
                \/ AfterIndexComponent(TokensOfMask[k], p)
                \/ /\ p = 1
                   /\ variant = "scgpm"
                   /\ \E i \in ZeroIndexReads :
                         /\ mask_elements[reads[i].number] = TokensOfMask[k]
                         /\ TokensOfMask[k] =
                               <<"n">> \o IntToStr(reads[i].read_length)

C22_Witness ==
    /\ MaskReturned
    /\ variant = "scgpm"
    /\ ZeroIndexReads # {}
    /\ result.value = <<"I", "2", "n", "8", ",", "n", "1", "0">>

-----------------------------------------------------------------------------
(* Properties of the inputs of the mask derivation                         *)

\* C23: after GetUseBasesMaskJob.run has returned, the barcode list passed
\* to it holds the same barcodes as before the call.
C23_BarcodesNotDrained ==
    MaskReturned => barcodes_list = barcodes_in

-----------------------------------------------------------------------------
(* Properties of the read index of an output file                          *)

\* C24: when every found file has a name of 5 or 6 segments, a read segment
\* that is not R<digit> does not stop the classification: every found file
\* is named and stored and upload_fastq_files returns.
C24_ReadIndexMismatchGoesOn ==
    (/\ pc = "done"
     /\ matches # <<>>
     /\ Len(Split(flowcell_id, "-")) <= 2
     /\ \A k \in DOMAIN matches : UsualSegments(matches[k]))
    => /\ result.kind = "return"
       /\ Len(uploaded) = Len(matches)

-----------------------------------------------------------------------------
(* Properties of the length of the truncated flowcell id                   *)

\* C25: a truncated flowcell id has exactly 5 characters.
C25_FiveCharacters ==
    (TruncateCalled /\ sample_args.trunc_flowcell_id.st = "str") =>
        Len(sample_args.trunc_flowcell_id.val) = 5

-----------------------------------------------------------------------------
(* Properties of the enumeration of output files                           *)

\* path lies below the local output directory
BelowOutputDir(path) ==
    /\ Len(path) > Len(OutputDir) + 1
    /\ SubSeq(path, 1, Len(OutputDir) + 1) = OutputDir \o <<"/">>

\* C26: every file that is found and every file that is stored as a sequence
\* file lies below the local output directory and ends with .fastq.gz.
C26_OnlyOutputFiles ==
    /\ \A k \in DOMAIN matches :
          BelowOutputDir(matches[k]) /\ EndsWith(matches[k], FastqSuffix)
    /\ \A k \in DOMAIN uploaded :
          BelowOutputDir(uploaded[k].filename)
              /\ EndsWith(uploaded[k].filename, FastqSuffix)

-----------------------------------------------------------------------------
(* Properties of the independence of sheet rows                            *)

\* C27: the row of every barcode line is the row that the line gets as the
\* only line of a barcodes file: nothing of an earlier line enters it.
C27_RowOfOwnLine ==
    \A k \in WrittenLines :
        LET alone == create_sample_sheet(lane_index, <<CODES[k]>>)
        IN  /\ alone.err = ""
            /\ DataRows(SHEET)[k] = DataRows(alone.sheet)[1]

-----------------------------------------------------------------------------
(* Properties of a mask supplied by the caller                             *)

\* main is past the call of bcl_job.run, and neither the parsing of the
\* inputs nor the sample sheet has stopped it
PastToolStage ==
    /\ pc \notin {"parse_applet_inputs", "create_sample_sheet",
                  "get_use_bases_mask", "bcl_job_run"}
    /\ \/ "sample_sheet" \in output
       \/ variant = "scgpm" /\ ~applet_inputs.barcodes_file

\* C28: with use_bases_mask among the inputs no mask is derived, main reaches
\* the run of the tool, and the command holds --use-bases-mask with the value
\* of the caller, in both scripts.
C28_SuppliedMaskIsUsed ==
    (applet_inputs.use_bases_mask # Missing /\ PastToolStage) =>
        /\ use_bases_mask.st = "unbound"
        /\ Len(invocations) = 1
        /\ Contains(invocations[1].cmd,
                    <<"-", "-", "u", "s", "e", "-", "b", "a", "s", "e", "s", "-", "m", "a", "s", "k", " ">> \o applet_inputs.use_bases_mask.val
                        \o <<" ">>)

-----------------------------------------------------------------------------
(* Properties of the names in a command                                    *)

\* the positions of the tokens of t that are names of options or flags
NamePositions(t) ==
    {p \in DOMAIN t : Len(t[p]) > 2 /\ t[p][1] = "-" /\ t[p][2] = "-"}

\* C29: every name appears at most once in a command, so none appears both
\* with a value and as a bare flag.
C29_NamesOnce ==
    \A k \in DOMAIN invocations :
        LET t == CommandTokens(invocations[k].cmd)
        IN  \A p, q \in NamePositions(t) : t[p] = t[q] => p = q

-----------------------------------------------------------------------------
(* Properties of repeated calls of the mask derivation                     *)

\* C30: the result of every call of run is the result of the same call made
\* first in a new process: the same mask, or an abort where that call aborts
\* (before RunInfo.xml is read where that call aborts before reading it).
C30_ResultOfArgumentsOnly ==
    pc = "done" =>
        IF reads = <<>>
        THEN /\ result.kind \notin {"return", "none"}
             /\ GetUseBasesMaskJob(variant, barcodes_in, <<>>).err # ""
        ELSE LET fresh == GetUseBasesMaskJob(variant, barcodes_in, reads)
             IN  IF fresh.err = "" THEN result = Returned(fresh.mask)
                 ELSE result.kind \notin {"return", "none"}

=============================================================================
